---------------------------- MODULE Spec2Model ----------------------------
(***************************************************************************)
(* A model of include/tcp/tcp.hpp: the owning Socket handle and the        *)
(* Endpoint value type, together with the part of the Winsock API that     *)
(* their member functions delegate to.                                     *)
(*                                                                         *)
(* Spec          drives Socket objects through every operation (create,    *)
(*               construction, moves, close, destruction, bind, listen,    *)
(*               connect, accept, send, receive) against a table of OS     *)
(*               descriptors.                                              *)
(* SpecLifetime  is Spec restricted to the operations that create, move,   *)
(*               close and destroy descriptors.                            *)
(* SpecEndpoint  drives Endpoint objects (constructors, setters, lookup,   *)
(*               derive) over 32-bit addresses and 16-bit ports.           *)
(*                                                                         *)
(* Descriptors are numbered in the order the OS hands them out, so a       *)
(* number names one allocation: a second closesocket on it is a double     *)
(* close even where the OS would have reused the value.                    *)
(***************************************************************************)
EXTENDS Integers, Sequences, FiniteSets

VARIABLES
    live,        \* the Socket objects whose lifetime has begun and not ended
    m_socket,    \* Socket::m_socket of every object (and of the temporary)
    hstate,      \* OS: the state of every descriptor
    closeCalls,  \* OS: how often closesocket was handed each descriptor
    nextHandle,  \* OS: the next descriptor ::socket / ::accept hands out
    movedFrom,   \* the live objects last touched as the source of a move
    last,        \* the most recent Socket operation, its inputs and results
    ep,          \* Endpoint::m_endpoint of every Endpoint object
    made         \* how every Endpoint object was last constructed or set

svars == <<live, m_socket, hstate, closeCalls, nextHandle, movedFrom, last>>
vars  == <<live, m_socket, hstate, closeCalls, nextHandle, movedFrom, last, ep, made>>

---------------------------------------------------------------------------
(* Bounds of the model.                                                    *)

NumObjects == 2     \* Socket objects the caller may have at once
MaxHandles == 3     \* descriptors the OS hands out in one run
MaxLen     == 2     \* the largest buffer size passed to send / receive

Objects == 1..NumObjects
Handles == 1..MaxHandles
Temp    == 0        \* the temporary Socket{...} inside accept

---------------------------------------------------------------------------
(* Platform values the header uses.                                        *)

INVALID_SOCKET == -1    \* (SOCKET)(~0): no descriptor
SOCKET_ERROR   == -1    \* what ::send, ::recv, ::closesocket return on failure
SizeTBytes     == 8     \* sizeof(std::size_t), the return type of send/receive

Min(a, b) == IF a < b THEN a ELSE b

(* int -> std::size_t: the value modulo 2^(8*SizeTBytes), kept as its      *)
(* bytes (index 0 the least significant): an int is sign-extended.         *)
ToSizeT(n) ==
    [k \in 0..(SizeTBytes - 1) |->
        CASE k = 0 -> n % 256
          [] k = 1 -> (n \div 256) % 256
          [] k = 2 -> (n \div 65536) % 256
          [] k = 3 -> (n \div 16777216) % 256
          [] OTHER -> IF n < 0 THEN 255 ELSE 0]

SizeIsZero(sz) == \A k \in DOMAIN sz : sz[k] = 0

---------------------------------------------------------------------------
(* The OS socket table.  A world w is a record                             *)
(*   sock  : m_socket of every object,                                     *)
(*   hs    : descriptor states,  cc : closesocket counts,                  *)
(*   calls : the arguments closesocket received during this operation.     *)

OpenStates == {"open", "bound", "listening", "connected"}

IsOpen(hs, h) == h \in Handles /\ hs[h] \in OpenStates

(* ::closesocket(h): releases an open descriptor; anything else (the       *)
(* invalid sentinel, a descriptor already closed) fails with SOCKET_ERROR, *)
(* which close() discards.                                                 *)
closesocket(w, h) ==
    [w EXCEPT !.hs    = IF IsOpen(w.hs, h) THEN [w.hs EXCEPT ![h] = "closed"] ELSE w.hs,
              !.cc    = IF h \in Handles THEN [w.cc EXCEPT ![h] = Min(@ + 1, 2)] ELSE w.cc,
              !.calls = Append(w.calls, h)]

---------------------------------------------------------------------------
(* Socket's member functions, as functions of the world.                   *)

(* operator bool *)
Valid(w, s) == w.sock[s] # INVALID_SOCKET

(* faulty variant: release() that hands out the descriptor and keeps it *)
ReleaseKeepsHandle(w, s) == [w |-> w, ret |-> w.sock[s]]

(* release(): std::exchange(m_socket, INVALID_SOCKET) *)
release(w, s) ==
    [w |-> [w EXCEPT !.sock[s] = INVALID_SOCKET], ret |-> w.sock[s]]

(* faulty variant: close() that calls closesocket(m_socket) without release() *)
CloseKeepsHandle(w, s) == closesocket(w, w.sock[s])

(* close(): ::closesocket(release()) *)
close(w, s) ==
    LET r == release(w, s) IN closesocket(r.w, r.ret)

(* ~Socket(): close() when this socket tests true *)
destructor(w, s) == IF Valid(w, s) THEN close(w, s) ELSE w

(* faulty variant: move assignment that does not close what it held *)
MoveAssignNoClose(w, dst, src) ==
    IF dst # src
    THEN LET r == release(w, src) IN [r.w EXCEPT !.sock[dst] = r.ret]
    ELSE w

(* faulty variant: move assignment that copies right.m_socket *)
MoveAssignCopiesHandle(w, dst, src) ==
    IF dst # src
    THEN LET c == close(w, dst) IN [c EXCEPT !.sock[dst] = c.sock[src]]
    ELSE w

(* operator=(Socket&&): if (this != &right) { close(); m_socket = right.release(); } *)
moveAssign(w, dst, src) ==
    IF dst # src
    THEN LET c == close(w, dst)
             r == release(c, src)
         IN  [r.w EXCEPT !.sock[dst] = r.ret]
    ELSE w

(* Socket(Socket&&): m_socket starts as INVALID_SOCKET (its default member *)
(* initialiser), then *this = std::move(right).                            *)
moveConstruct(w, dst, src) ==
    moveAssign([w EXCEPT !.sock[dst] = INVALID_SOCKET], dst, src)

(* faulty variant: accept() that stores the raw handle over the old one *)
AcceptLeaksPrevious(w, out, h) ==
    [w EXCEPT !.sock[out] = h]

(* accept(): socket = Socket{h}; where h is what ::accept returned.  The   *)
(* temporary is built from the raw handle, moved into socket, and          *)
(* destroyed at the end of the full expression.                            *)
acceptInto(w, out, h) ==
    LET t == [w EXCEPT !.sock[Temp] = h]
        a == moveAssign(t, out, Temp)
    IN  destructor(a, Temp)

---------------------------------------------------------------------------
(* The state seen as a world, and a world written back to the state.       *)

World == [sock |-> m_socket, hs |-> hstate, cc |-> closeCalls, calls |-> <<>>]

Commit(w) ==
    /\ m_socket'   = w.sock
    /\ hstate'     = w.hs
    /\ closeCalls' = w.cc

NoSize == ToSizeT(0)

(* One record per operation: op, the object a it ran on, a second object   *)
(* b, what a and b held before, the descriptor moved out of a earlier      *)
(* (movedOut), what the OS call returned (osRet), the member function's    *)
(* own result (ok, or size for send/receive), and the arguments            *)
(* closesocket received while it ran.                                      *)
Op(op, a, b, osRet, ok, size, w) ==
    [op |-> op, a |-> a, b |-> b,
     preA |-> m_socket[a], preB |-> m_socket[b], movedOut |-> movedFrom[a],
     osRet |-> osRet, ok |-> ok, size |-> size, calls |-> w.calls]

SInit ==
    /\ live = {}
    /\ m_socket = [s \in Objects \cup {Temp} |-> INVALID_SOCKET]
    /\ hstate = [h \in Handles |-> "unused"]
    /\ closeCalls = [h \in Handles |-> 0]
    /\ nextHandle = 1
    /\ movedFrom = [s \in Objects \cup {Temp} |-> INVALID_SOCKET]
    /\ last = [op |-> "none", a |-> Temp, b |-> Temp,
               preA |-> INVALID_SOCKET, preB |-> INVALID_SOCKET,
               movedOut |-> INVALID_SOCKET,
               osRet |-> 0, ok |-> FALSE, size |-> NoSize, calls |-> <<>>]

(* ::socket / ::accept hand out the next descriptor, or fail. *)
CanAllocate == nextHandle <= MaxHandles

(* Socket(): constexpr Socket() = default; m_socket{INVALID_SOCKET} *)
DefaultConstruct(s) ==
    /\ s \notin live
    /\ live' = live \cup {s}
    /\ m_socket' = [m_socket EXCEPT ![s] = INVALID_SOCKET]
    /\ movedFrom' = [movedFrom EXCEPT ![s] = INVALID_SOCKET]
    /\ last' = Op("construct", s, s, 0, FALSE, NoSize, World)
    /\ UNCHANGED <<hstate, closeCalls, nextHandle, ep, made>>

(* Socket::create(): return Socket{::socket(AF_INET, SOCK_STREAM, IPPROTO_TCP)} *)
Create(s) ==
    /\ s \notin live
    /\ \E granted \in BOOLEAN :
         LET h == IF granted /\ CanAllocate THEN nextHandle ELSE INVALID_SOCKET
         IN  /\ live' = live \cup {s}
             /\ m_socket' = [m_socket EXCEPT ![s] = h]
             /\ hstate' = IF h # INVALID_SOCKET
                          THEN [hstate EXCEPT ![h] = "open"] ELSE hstate
             /\ nextHandle' = IF h # INVALID_SOCKET THEN nextHandle + 1 ELSE nextHandle
             /\ movedFrom' = [movedFrom EXCEPT ![s] = INVALID_SOCKET]
             /\ last' = Op("create", s, s, h, h # INVALID_SOCKET, NoSize, World)
    /\ UNCHANGED <<closeCalls, ep, made>>

(* Socket dst{std::move(src)} *)
MoveConstruct(dst, src) ==
    /\ dst \notin live
    /\ src \in live
    /\ LET w == moveConstruct(World, dst, src)
       IN  /\ Commit(w)
           /\ last' = Op("moveConstruct", dst, src, 0, FALSE, NoSize, w)
    /\ live' = live \cup {dst}
    /\ movedFrom' = [movedFrom EXCEPT ![dst] = INVALID_SOCKET, ![src] = m_socket[src]]
    /\ UNCHANGED <<nextHandle, ep, made>>

(* dst = std::move(src), dst and src possibly the same object *)
MoveAssign(dst, src) ==
    /\ dst \in live
    /\ src \in live
    /\ LET w == moveAssign(World, dst, src)
       IN  /\ Commit(w)
           /\ last' = Op("moveAssign", dst, src, 0, FALSE, NoSize, w)
    /\ movedFrom' = IF dst # src
                    THEN [movedFrom EXCEPT ![dst] = INVALID_SOCKET, ![src] = m_socket[src]]
                    ELSE movedFrom
    /\ UNCHANGED <<live, nextHandle, ep, made>>

(* s.close() *)
Close(s) ==
    /\ s \in live
    /\ LET w == close(World, s)
       IN  /\ Commit(w)
           /\ last' = Op("close", s, s, 0, FALSE, NoSize, w)
    /\ UNCHANGED <<live, nextHandle, movedFrom, ep, made>>

(* the end of s's lifetime: ~Socket() *)
Destroy(s) ==
    /\ s \in live
    /\ LET w == destructor(World, s)
       IN  /\ Commit(w)
           /\ last' = Op("destroy", s, s, 0, FALSE, NoSize, w)
    /\ live' = live \ {s}
    /\ movedFrom' = [movedFrom EXCEPT ![s] = INVALID_SOCKET]
    /\ UNCHANGED <<nextHandle, ep, made>>


---------------------------------------------------------------------------
(* The pass-through operations.  The wrapper keeps no connection state:    *)
(* the OS call decides, and may fail whenever it likes (granted = FALSE).  *)

HandleState(h) == IF h \in Handles THEN hstate[h] ELSE "none"

(* bind(): ::bind(m_socket, ...) == 0 *)
Bind(s) ==
    /\ s \in live
    /\ \E granted \in BOOLEAN :
         LET h  == m_socket[s]
             rc == IF granted /\ HandleState(h) = "open" THEN 0 ELSE SOCKET_ERROR
         IN  /\ hstate' = IF rc = 0 THEN [hstate EXCEPT ![h] = "bound"] ELSE hstate
             /\ last' = Op("bind", s, s, rc, rc = 0, NoSize, World)
    /\ UNCHANGED <<live, m_socket, closeCalls, nextHandle, movedFrom, ep, made>>

(* listen(): ::listen(m_socket, backlog) == 0 *)
Listen(s) ==
    /\ s \in live
    /\ \E granted \in BOOLEAN :
         LET h  == m_socket[s]
             rc == IF granted /\ HandleState(h) = "bound" THEN 0 ELSE SOCKET_ERROR
         IN  /\ hstate' = IF rc = 0 THEN [hstate EXCEPT ![h] = "listening"] ELSE hstate
             /\ last' = Op("listen", s, s, rc, rc = 0, NoSize, World)
    /\ UNCHANGED <<live, m_socket, closeCalls, nextHandle, movedFrom, ep, made>>

(* connect(): ::connect(m_socket, ...) == 0 *)
Connect(s) ==
    /\ s \in live
    /\ \E granted \in BOOLEAN :
         LET h  == m_socket[s]
             rc == IF granted /\ HandleState(h) \in {"open", "bound"}
                   THEN 0 ELSE SOCKET_ERROR
         IN  /\ hstate' = IF rc = 0 THEN [hstate EXCEPT ![h] = "connected"] ELSE hstate
             /\ last' = Op("connect", s, s, rc, rc = 0, NoSize, World)
    /\ UNCHANGED <<live, m_socket, closeCalls, nextHandle, movedFrom, ep, made>>

(* accept(socket, endpoint): socket = Socket{::accept(m_socket, ...)};     *)
(* return !!socket.  ::accept runs on the listener's descriptor first,     *)
(* then the result is move-assigned into socket, which may be the listener *)
(* itself.  The peer address written to endpoint is left out.              *)
Accept(listener, out) ==
    /\ listener \in live
    /\ out \in live
    /\ \E granted \in BOOLEAN :
         LET h == IF granted /\ HandleState(m_socket[listener]) = "listening" /\ CanAllocate
                  THEN nextHandle ELSE INVALID_SOCKET
             o == [World EXCEPT !.hs = IF h # INVALID_SOCKET
                                       THEN [@ EXCEPT ![h] = "connected"] ELSE @]
             w == acceptInto(o, out, h)
         IN  /\ Commit(w)
             /\ nextHandle' = IF h # INVALID_SOCKET THEN nextHandle + 1 ELSE nextHandle
             /\ last' = Op("accept", out, listener, h, Valid(w, out), NoSize, w)
    /\ movedFrom' = [movedFrom EXCEPT ![out] = INVALID_SOCKET]
    /\ UNCHANGED <<live, ep, made>>

(* what ::send / ::recv may return for a buffer of len bytes *)
Transferred(s, len) ==
    IF HandleState(m_socket[s]) = "connected"
    THEN (0..len) \cup {SOCKET_ERROR}
    ELSE {SOCKET_ERROR}

(* send(data, size): return ::send(m_socket, data, size, 0), an int        *)
(* converted to the std::size_t the function returns                       *)
Send(s) ==
    /\ s \in live
    /\ \E len \in 1..MaxLen : \E n \in Transferred(s, len) :
         last' = Op("send", s, s, n, FALSE, ToSizeT(n), World)
    /\ UNCHANGED <<live, m_socket, hstate, closeCalls, nextHandle, movedFrom, ep, made>>

(* receive(data, size): return ::recv(m_socket, data, size, 0) *)
Receive(s) ==
    /\ s \in live
    /\ \E len \in 1..MaxLen : \E n \in Transferred(s, len) :
         last' = Op("receive", s, s, n, FALSE, ToSizeT(n), World)
    /\ UNCHANGED <<live, m_socket, hstate, closeCalls, nextHandle, movedFrom, ep, made>>

SNext ==
    \/ \E s \in Objects : DefaultConstruct(s)
    \/ \E s \in Objects : Create(s)
    \/ \E dst, src \in Objects : MoveConstruct(dst, src)
    \/ \E dst, src \in Objects : MoveAssign(dst, src)
    \/ \E s \in Objects : Close(s)
    \/ \E s \in Objects : Destroy(s)
    \/ \E s \in Objects : Bind(s)
    \/ \E s \in Objects : Listen(s)
    \/ \E s \in Objects : Connect(s)
    \/ \E l, out \in Objects : Accept(l, out)
    \/ \E s \in Objects : Send(s)
    \/ \E s \in Objects : Receive(s)


---------------------------------------------------------------------------
(* Unsigned integers.  A 16-bit value is a number; a 32-bit value is the   *)
(* function of its four bytes, index 0 the least significant, which on the *)
(* little-endian hosts Winsock runs on is also its first byte in memory.   *)

RECURSIVE BitAnd(_, _)
BitAnd(a, b) ==
    IF a = 0 \/ b = 0 THEN 0
    ELSE (a % 2) * (b % 2) + 2 * BitAnd(a \div 2, b \div 2)

RECURSIVE BitOr(_, _)
BitOr(a, b) ==
    IF a = 0 THEN b
    ELSE IF b = 0 THEN a
    ELSE (IF a % 2 = 1 \/ b % 2 = 1 THEN 1 ELSE 0) + 2 * BitOr(a \div 2, b \div 2)

(* the 32-bit value 0x b3 b2 b1 b0 *)
Word(b3, b2, b1, b0) ==
    [i \in 0..3 |-> CASE i = 0 -> b0 [] i = 1 -> b1 [] i = 2 -> b2 [] OTHER -> b3]

(* value >> 8*n and value << 8*n in 32-bit unsigned arithmetic *)
Shr32(v, n) == [i \in 0..3 |-> IF i + n <= 3 THEN v[i + n] ELSE 0]
Shl32(v, n) == [i \in 0..3 |-> IF i - n >= 0 THEN v[i - n] ELSE 0]
And32(v, w) == [i \in 0..3 |-> BitAnd(v[i], w[i])]
Or32(v, w)  == [i \in 0..3 |-> BitOr(v[i], w[i])]

(* swapBytes for sizeof(value) == 2: the operand is promoted to int        *)
(*   ((value >> 8) & 0x00FF) | ((value << 8) & 0xFF00)                     *)
swapBytes16(value) ==
    BitOr(BitAnd(value \div 256, 255), BitAnd(value * 256, 65280))

(* swapBytes for sizeof(value) == 4                                        *)
(*   ((value >> 24) & 0x000000FF) | ((value >>  8) & 0x0000FF00) |         *)
(*   ((value <<  8) & 0x00FF0000) | ((value << 24) & 0xFF000000)           *)
swapBytes32(value) ==
    Or32(Or32(And32(Shr32(value, 3), Word(0, 0, 0, 255)),
              And32(Shr32(value, 1), Word(0, 0, 255, 0))),
         Or32(And32(Shl32(value, 1), Word(0, 255, 0, 0)),
              And32(Shl32(value, 3), Word(255, 0, 0, 0))))

(* the conversions to u_short / std::uint16_t and to UCHAR *)
ToUInt16(n) == n % 65536
ToUChar(v)  == v[0]

---------------------------------------------------------------------------
(* Endpoint.  m_endpoint is a sockaddr_in: sin_family, sin_port and        *)
(* sin_addr, the four bytes s_b1..s_b4 of Winsock's in_addr (index 0 is    *)
(* s_b1); s_addr names the same four bytes as one 32-bit value.            *)

AF_UNSPEC == 0
AF_INET   == 2

ZeroAddr == Word(0, 0, 0, 0)

(* Endpoint(): sockaddr_in m_endpoint{} *)
EndpointDefault ==
    [sin_family |-> AF_UNSPEC, sin_port |-> 0, sin_addr |-> ZeroAddr]

(* Endpoint(sockaddr_in const&) *)
EndpointFromSockaddr(sa) == sa

(* Endpoint(in_addr, uint16_t): m_endpoint{AF_INET, swapBytes(port), address} *)
EndpointFromInAddr(inaddr, port) ==
    [sin_family |-> AF_INET, sin_port |-> ToUInt16(swapBytes16(port)), sin_addr |-> inaddr]

(* Endpoint(uint32_t, uint16_t):                                           *)
(*   m_endpoint{AF_INET, swapBytes(port), swapBytes(address)}              *)
(* The third initialiser is an unsigned int and sin_addr an in_addr, whose *)
(* first member is the union S_un, whose first member is S_un_b, the       *)
(* struct of the bytes s_b1..s_b4.  Aggregate initialisation with the      *)
(* braces elided therefore initialises s_b1 alone, from the value narrowed *)
(* to UCHAR, and leaves s_b2..s_b4 zero.                                   *)
EndpointFromNumbers(address, port) ==
    [sin_family |-> AF_INET,
     sin_port   |-> ToUInt16(swapBytes16(port)),
     sin_addr   |-> Word(0, 0, 0, ToUChar(swapBytes32(address)))]

(* operator bool *)
EndpointValid(e) == e.sin_family = AF_INET

(* faulty variant: operator== that compares the port as well *)
EqualsComparesPortToo(l, r) == l.sin_addr = r.sin_addr /\ l.sin_port = r.sin_port

(* operator==: compares s_addr only *)
EndpointEquals(l, r) == l.sin_addr = r.sin_addr

(* setAddress / setPort *)
setAddress(e, address) == [e EXCEPT !.sin_addr = swapBytes32(address)]
setPort(e, port)       == [e EXCEPT !.sin_port = ToUInt16(swapBytes16(port))]

(* address() / port() *)
address(e) == swapBytes32(e.sin_addr)
port(e)    == ToUInt16(swapBytes16(e.sin_port))

(* lookup(host, port): rc is what ::getaddrinfo returned and inaddr the    *)
(* address of its first result                                             *)
lookup(rc, inaddr, p) ==
    IF rc # 0 THEN EndpointDefault ELSE EndpointFromInAddr(inaddr, p)

(* faulty variant: derive() that tests inet_pton's result for non-zero *)
DeriveAcceptsNonZero(rc, inaddr, p) ==
    IF rc # 0 THEN EndpointFromInAddr(inaddr, p) ELSE EndpointDefault

(* derive(ip, port): rc is what ::inet_pton returned (1 parsed, 0 not an   *)
(* address, -1 error) and inaddr what it stored on success                 *)
derive(rc, inaddr, p) ==
    IF rc = 1 THEN EndpointFromInAddr(inaddr, p) ELSE EndpointDefault


---------------------------------------------------------------------------
(* Endpoint objects and the inputs they are driven with.                   *)

EndpointObjects == {"left", "right"}    \* the two operands of operator==

PortValues == {0, 80, 4660}
AddressValues ==
    {Word(0, 0, 0, 0), Word(127, 0, 0, 1), Word(127, 0, 0, 2), Word(10, 1, 2, 3)}

(* what the resolver may store in an in_addr: s_b1..s_b4 in memory order   *)
InAddrValues == {Word(1, 0, 0, 127), Word(3, 2, 1, 10)}

(* sockaddr_in values a caller may hand to Endpoint(sockaddr_in const&):   *)
(* no family, AF_INET and AF_INET6 (23)                                    *)
SockaddrValues ==
    [sin_family : {AF_UNSPEC, AF_INET, 23}, sin_port : {20480},
     sin_addr : {Word(0, 0, 0, 0), Word(1, 0, 0, 127)}]

GetaddrinfoCodes == {0, 11001}      \* success, WSAHOST_NOT_FOUND
InetPtonCodes    == {-1, 0, 1}      \* error, not an address, parsed

(* made[x]: the operation that last wrote x, with its arguments *)
Made(op, a, p, rc) == [op |-> op, a |-> a, p |-> p, rc |-> rc]

EInit ==
    /\ ep = [x \in EndpointObjects |-> EndpointDefault]
    /\ made = [x \in EndpointObjects |-> Made("default", ZeroAddr, 0, 0)]

(* x = Endpoint{} *)
EpDefault(x) ==
    /\ ep' = [ep EXCEPT ![x] = EndpointDefault]
    /\ made' = [made EXCEPT ![x] = Made("default", ZeroAddr, 0, 0)]
    /\ UNCHANGED svars

(* x = Endpoint{a, p} with a host-order address and port *)
EpNumbers(x) ==
    \E a \in AddressValues, p \in PortValues :
        /\ ep' = [ep EXCEPT ![x] = EndpointFromNumbers(a, p)]
        /\ made' = [made EXCEPT ![x] = Made("numbers", a, p, 0)]
        /\ UNCHANGED svars

(* x = Endpoint{in_addr, p} *)
EpInAddr(x) ==
    \E ia \in InAddrValues, p \in PortValues :
        /\ ep' = [ep EXCEPT ![x] = EndpointFromInAddr(ia, p)]
        /\ made' = [made EXCEPT ![x] = Made("inaddr", ia, p, 0)]
        /\ UNCHANGED svars

(* x = Endpoint{sockaddr_in} *)
EpSockaddr(x) ==
    \E sa \in SockaddrValues :
        /\ ep' = [ep EXCEPT ![x] = EndpointFromSockaddr(sa)]
        /\ made' = [made EXCEPT ![x] = Made("sockaddr", sa.sin_addr, sa.sin_port, 0)]
        /\ UNCHANGED svars

(* x.setAddress(a) *)
EpSetAddress(x) ==
    \E a \in AddressValues :
        /\ ep' = [ep EXCEPT ![x] = setAddress(ep[x], a)]
        /\ made' = [made EXCEPT ![x] = Made("setAddress", a, 0, 0)]
        /\ UNCHANGED svars

(* x.setPort(p) *)
EpSetPort(x) ==
    \E p \in PortValues :
        /\ ep' = [ep EXCEPT ![x] = setPort(ep[x], p)]
        /\ made' = [made EXCEPT ![x] = Made("setPort", ZeroAddr, p, 0)]
        /\ UNCHANGED svars

(* x = Endpoint::lookup(host, p) *)
EpLookup(x) ==
    \E rc \in GetaddrinfoCodes, p \in PortValues :
        \E ia \in IF rc = 0 THEN InAddrValues ELSE {ZeroAddr} :
            /\ ep' = [ep EXCEPT ![x] = lookup(rc, ia, p)]
            /\ made' = [made EXCEPT ![x] = Made("lookup", ia, p, rc)]
            /\ UNCHANGED svars

(* x = Endpoint::derive(ip, p) *)
EpDerive(x) ==
    \E rc \in InetPtonCodes, p \in PortValues :
        \E ia \in IF rc = 1 THEN InAddrValues ELSE {ZeroAddr} :
            /\ ep' = [ep EXCEPT ![x] = derive(rc, ia, p)]
            /\ made' = [made EXCEPT ![x] = Made("derive", ia, p, rc)]
            /\ UNCHANGED svars

ENext ==
    \/ \E x \in EndpointObjects : EpDefault(x)
    \/ \E x \in EndpointObjects : EpNumbers(x)
    \/ \E x \in EndpointObjects : EpInAddr(x)
    \/ \E x \in EndpointObjects : EpSockaddr(x)
    \/ \E x \in EndpointObjects : EpSetAddress(x)
    \/ \E x \in EndpointObjects : EpSetPort(x)
    \/ \E x \in EndpointObjects : EpLookup(x)
    \/ \E x \in EndpointObjects : EpDerive(x)

---------------------------------------------------------------------------
(* Specifications.                                                         *)

(* the operations that create, move, close and destroy descriptors *)
LifetimeNext ==
    \/ \E s \in Objects : DefaultConstruct(s)
    \/ \E s \in Objects : Create(s)
    \/ \E dst, src \in Objects : MoveConstruct(dst, src)
    \/ \E dst, src \in Objects : MoveAssign(dst, src)
    \/ \E s \in Objects : Close(s)
    \/ \E s \in Objects : Destroy(s)
    \/ \E s \in Objects : Bind(s)
    \/ \E s \in Objects : Listen(s)
    \/ \E l, out \in Objects : Accept(l, out)

Init == SInit /\ EInit

Spec         == Init /\ [][SNext]_vars
SpecLifetime == Init /\ [][LifetimeNext]_vars
SpecEndpoint == Init /\ [][ENext]_vars


---------------------------------------------------------------------------
(* Properties of Socket, checked under SpecLifetime and Spec.              *)

Range(f) == {f[i] : i \in DOMAIN f}

Allocated == 1..(nextHandle - 1)

Holders(h) == {s \in live : m_socket[s] = h}

IsMove == last.op \in {"moveConstruct", "moveAssign"}

(* C1: exclusive ownership.  No two live Socket objects hold the same      *)
(* valid descriptor, and closesocket never receives a descriptor more      *)
(* than once.                                                              *)
C1_ExclusiveOwnership ==
    /\ \A s, t \in live :
         (s # t /\ m_socket[s] # INVALID_SOCKET) => m_socket[s] # m_socket[t]
    /\ \A h \in Handles : closeCalls[h] <= 1

(* two live sockets own descriptors after an accept that closed a third *)
C1_Witness ==
    /\ last.op = "accept"
    /\ \E s, t \in live :
         /\ s # t
         /\ m_socket[s] # INVALID_SOCKET
         /\ m_socket[t] # INVALID_SOCKET
    /\ \E h \in Handles : closeCalls[h] = 1

(* C2: a move between two distinct Socket objects whose source held a      *)
(* valid descriptor d leaves the source invalid and the target holding d,  *)
(* still open; and destroying a moved-from source hands d to no            *)
(* closesocket call and leaves d open for whoever holds it.                *)
C2_MoveTransfersOwnership ==
    /\ (IsMove /\ last.a # last.b /\ last.preB # INVALID_SOCKET) =>
         /\ m_socket[last.b] = INVALID_SOCKET
         /\ m_socket[last.a] = last.preB
         /\ IsOpen(hstate, last.preB)
         /\ closeCalls[last.preB] = 0
    /\ (last.op = "destroy" /\ last.movedOut # INVALID_SOCKET) =>
         /\ last.movedOut \notin Range(last.calls)
         /\ \A t \in live :
              m_socket[t] = last.movedOut => IsOpen(hstate, last.movedOut)

(* a moved-from source was destroyed while the target still holds d *)
C2_Witness ==
    /\ last.op = "destroy"
    /\ last.movedOut # INVALID_SOCKET
    /\ \E t \in live : m_socket[t] = last.movedOut

(* C3: every descriptor handed out by ::socket or ::accept is held by      *)
(* exactly one live Socket and has not been closed, or is held by none     *)
(* and has been released exactly once; so once every Socket object is      *)
(* destroyed each descriptor has been released exactly once.               *)
C3_ClosedExactlyOnce ==
    /\ \A h \in Allocated :
         \/ Cardinality(Holders(h)) = 1 /\ closeCalls[h] = 0 /\ IsOpen(hstate, h)
         \/ Holders(h) = {} /\ closeCalls[h] = 1 /\ hstate[h] = "closed"
    /\ live = {} => \A h \in Allocated : closeCalls[h] = 1 /\ hstate[h] = "closed"

(* all objects are gone after at least two descriptors were handed out,    *)
(* the last one released by a destructor                                   *)
C3_Witness ==
    /\ live = {}
    /\ nextHandle > 2
    /\ last.op = "destroy"
    /\ last.calls # <<>>

(* C4: close() leaves the Socket invalid.  On a Socket that was already    *)
(* invalid it hands no descriptor to the OS; on a valid one it releases    *)
(* exactly the descriptor the Socket held.                                 *)
C4_CloseIdempotent ==
    last.op = "close" =>
        /\ m_socket[last.a] = INVALID_SOCKET
        /\ IF last.preA = INVALID_SOCKET
           THEN \A h \in Range(last.calls) : h = INVALID_SOCKET
           ELSE /\ last.calls = <<last.preA>>
                /\ hstate[last.preA] = "closed"
                /\ closeCalls[last.preA] = 1

(* close() on a moved-from Socket, the moved descriptor still open *)
C4_Witness ==
    /\ last.op = "close"
    /\ last.preA = INVALID_SOCKET
    /\ last.movedOut # INVALID_SOCKET
    /\ IsOpen(hstate, last.movedOut)

(* C5: when ::send fails with -1, send() does not return a positive        *)
(* byte count.                                                             *)
C5_SendFailureNotPositive ==
    (last.op = "send" /\ last.osRet = SOCKET_ERROR) => SizeIsZero(last.size)

(* what accept() does to the Socket it writes to *)
AcceptOverwrites ==
    /\ m_socket[last.a] = last.osRet
    /\ last.preA # INVALID_SOCKET =>
         /\ closeCalls[last.preA] = 1
         /\ hstate[last.preA] = "closed"
    /\ last.ok = (m_socket[last.a] # INVALID_SOCKET)

(* C8 as stated: accept() overwrites outSocket with the accepted           *)
(* descriptor, closes what outSocket held exactly once, returns whether    *)
(* the stored socket is valid, and leaves the listener's descriptor        *)
(* unchanged.                                                              *)
C8_AcceptKeepsListener ==
    last.op = "accept" =>
        /\ AcceptOverwrites
        /\ m_socket[last.b] = last.preB

(* C8 amended: the listener's descriptor is unchanged when outSocket is    *)
(* another object; when outSocket is the listener itself, the listener's   *)
(* descriptor is closed and replaced by the accepted one.                  *)
C8_AcceptOverwritesOut ==
    last.op = "accept" =>
        /\ AcceptOverwrites
        /\ last.a # last.b => m_socket[last.b] = last.preB
        /\ last.a = last.b => m_socket[last.b] = last.osRet

(* a successful accept into another Socket that owned a descriptor *)
C8_Witness ==
    /\ last.op = "accept"
    /\ last.a # last.b
    /\ last.preA # INVALID_SOCKET
    /\ last.osRet # INVALID_SOCKET

---------------------------------------------------------------------------
(* Properties of Endpoint, checked under SpecEndpoint.                     *)

(* C6 as stated: a default-constructed Endpoint tests false and compares   *)
(* equal to no Endpoint, and every Endpoint that tests true carries        *)
(* AF_INET.                                                                *)
C6_DefaultFailsEquality ==
    /\ \A x, y \in EndpointObjects :
         (made[x].op = "default" /\ x # y) =>
             /\ ~EndpointValid(ep[x])
             /\ ~EndpointEquals(ep[x], ep[y])
    /\ \A x \in EndpointObjects : EndpointValid(ep[x]) => ep[x].sin_family = AF_INET

(* C6 amended: a default-constructed Endpoint tests false; operator==      *)
(* ignores the family, so it compares equal exactly to the Endpoints       *)
(* whose address is 0; every Endpoint that tests true carries AF_INET.     *)
C6_DefaultEqualsZeroAddress ==
    /\ \A x, y \in EndpointObjects :
         (made[x].op = "default" /\ x # y) =>
             /\ ~EndpointValid(ep[x])
             /\ EndpointEquals(ep[x], ep[y]) <=> (address(ep[y]) = ZeroAddr)
             /\ EndpointEquals(ep[y], ep[x]) <=> (address(ep[y]) = ZeroAddr)
    /\ \A x \in EndpointObjects : EndpointValid(ep[x]) => ep[x].sin_family = AF_INET

(* a default-constructed Endpoint equal to a valid one with another port *)
C6_Witness ==
    /\ made["left"].op = "default"
    /\ EndpointValid(ep["right"])
    /\ port(ep["right"]) # 0
    /\ EndpointEquals(ep["left"], ep["right"])

(* C7: Endpoint(a, p) == Endpoint(b, q) holds if and only if a = b.        *)
C7_EqualityIffSameAddress ==
    \A x, y \in EndpointObjects :
        (made[x].op = "numbers" /\ made[y].op = "numbers") =>
            (EndpointEquals(ep[x], ep[y]) <=> (made[x].a = made[y].a))

(* C9: Endpoint(a, p).address() = a and .port() = p, likewise after        *)
(* setAddress(a) and setPort(p), and swapBytes is an involution on 16-     *)
(* and 32-bit values.                                                      *)
C9_HostOrderRoundTrip ==
    /\ \A x \in EndpointObjects :
         /\ made[x].op = "numbers" =>
              address(ep[x]) = made[x].a /\ port(ep[x]) = made[x].p
         /\ made[x].op = "setAddress" => address(ep[x]) = made[x].a
         /\ made[x].op = "setPort" => port(ep[x]) = made[x].p
    /\ \A a \in AddressValues : swapBytes32(swapBytes32(a)) = a
    /\ \A p \in PortValues : ToUInt16(swapBytes16(ToUInt16(swapBytes16(p)))) = p

(* C10: lookup returns the default Endpoint, which tests false, when       *)
(* getaddrinfo fails, and derive when inet_pton does not return 1; when    *)
(* the resolver succeeds the Endpoint tests true and port() is the port    *)
(* argument.                                                               *)
C10_ResolutionFailureIsInvalid ==
    \A x \in EndpointObjects :
        /\ made[x].op = "lookup" =>
             IF made[x].rc # 0
             THEN ep[x] = EndpointDefault /\ ~EndpointValid(ep[x])
             ELSE EndpointValid(ep[x]) /\ port(ep[x]) = made[x].p
        /\ made[x].op = "derive" =>
             IF made[x].rc # 1
             THEN ep[x] = EndpointDefault /\ ~EndpointValid(ep[x])
             ELSE EndpointValid(ep[x]) /\ port(ep[x]) = made[x].p

(* a failed lookup beside a derive that inet_pton rejected with -1 *)
C10_Witness ==
    /\ made["left"].op = "lookup"
    /\ made["left"].rc # 0
    /\ made["right"].op = "derive"
    /\ made["right"].rc = -1

===========================================================================
